---- MODULE Spec2Model ----
(***************************************************************************)
(* Model of notebooks/LNG_deal_economics.py: the pure function             *)
(* lng_cargo_economics, stepped statement by statement, its helpers, and   *)
(* the CLI wrapper main().                                                 *)
(*                                                                         *)
(* Numbers.  A Python float is modelled by the exact rational it denotes,  *)
(* written <<n, d>> with d > 0 and gcd(n, d) = 1; <<0, 0>> stands for a    *)
(* local that has not been assigned yet.  round(x, k) is modelled as       *)
(* round-half-to-even on that rational.  The binary representation error   *)
(* of a float is not modelled.                                             *)
(***************************************************************************)
EXTENDS Integers, Sequences, FiniteSets, TLC

\* ------------------------------------------------------------------------
\* Bound of the model
\* ------------------------------------------------------------------------
\* cargo_mmbtu of a direct call ranges over 0 .. MaxCargo.
MaxCargo == 1

\* ------------------------------------------------------------------------
\* Exact rational arithmetic (the float operators of the source)
\* ------------------------------------------------------------------------
None == <<0, 0>>

IsSet(x) == x[2] # 0

Abs(n) == IF n < 0 THEN -n ELSE n

RECURSIVE Gcd(_, _)
Gcd(a, b) == IF b = 0 THEN a ELSE Gcd(b, a % b)

\* The rational n/d (d # 0) in lowest terms with a positive denominator.
R(n, d) ==
    LET g == Gcd(Abs(n), Abs(d))
        s == IF d < 0 THEN -1 ELSE 1
    IN  <<s * (n \div g), s * (d \div g)>>

Num(n) == <<n, 1>>

RNeg(x) == <<-x[1], x[2]>>

RAdd(x, y) ==
    LET g == Gcd(x[2], y[2])
        l == (x[2] \div g) * y[2]
    IN  R(x[1] * (l \div x[2]) + y[1] * (l \div y[2]), l)

RSub(x, y) == RAdd(x, RNeg(y))

\* Cross-cancelled before multiplying.
RMul(x, y) ==
    LET g1 == Gcd(Abs(x[1]), y[2])
        g2 == Gcd(Abs(y[1]), x[2])
    IN  IF x[1] = 0 \/ y[1] = 0 THEN Num(0)
        ELSE <<(x[1] \div g1) * (y[1] \div g2), (x[2] \div g2) * (y[2] \div g1)>>

\* x / y for y # 0.
RDiv(x, y) == RMul(x, R(y[2], y[1]))

RLeqZero(x) == x[1] <= 0

\* Python max(x, 0.0).
RMax0(x) == IF x[1] < 0 THEN Num(0) ELSE x

Pow10(k) == IF k = 3 THEN 1000 ELSE 100

\* Python round(x, ndigits): nearest multiple of 10^-ndigits, ties to even.
Round(x, ndigits) ==
    LET p     == Pow10(ndigits)
        whole == x[1] \div x[2]
        rem   == x[1] % x[2]
        q     == (rem * p) \div x[2]
        r     == (rem * p) % x[2]
        up    == \/ 2 * r > x[2]
                 \/ 2 * r = x[2] /\ q % 2 = 1
    IN  RAdd(Num(whole), R(IF up THEN q + 1 ELSE q, p))

\* ------------------------------------------------------------------------
\* Helper functions of the source
\* ------------------------------------------------------------------------
\* Fault variant: the guard is "speed_knots < 0".
SpeedInvalid_mut(speed_knots) == speed_knots[1] < 0

\* calc_shipping_days raises ValueError("Speed must be positive.") iff this holds.
SpeedInvalid(speed_knots) == RLeqZero(speed_knots)

calc_shipping_days(distance_nm, speed_knots) ==
    RDiv(distance_nm, RMul(speed_knots, Num(24)))

\* Fault variant: the boil-off of one day, whatever the voyage length.
calc_voyage_boiloff_mut(cargo_mmbtu, shipping_days, daily_boiloff_rate) ==
    RMul(cargo_mmbtu, daily_boiloff_rate)

calc_voyage_boiloff(cargo_mmbtu, shipping_days, daily_boiloff_rate) ==
    RMul(RMul(cargo_mmbtu, daily_boiloff_rate), shipping_days)

calc_fuel_use(cargo_mmbtu, fuel_use_fraction) ==
    RMul(cargo_mmbtu, fuel_use_fraction)

calc_freight_cost(daily_charter_rate_usd, shipping_days) ==
    RMul(daily_charter_rate_usd, shipping_days)

calc_hedge_pnl(hedge_price, physical_price, hedge_volume) ==
    RMul(RSub(physical_price, hedge_price), hedge_volume)

\* Fault variant: no floor at zero.
net_delivered_of_mut(cargo_mmbtu, total_losses_mmbtu) ==
    RSub(cargo_mmbtu, total_losses_mmbtu)

\* max(cargo_mmbtu - total_losses_mmbtu, 0.0)
net_delivered_of(cargo_mmbtu, total_losses_mmbtu) ==
    RMax0(RSub(cargo_mmbtu, total_losses_mmbtu))

\* ------------------------------------------------------------------------
\* Data
\* ------------------------------------------------------------------------
DealTypes == {"FOB", "DES", "CIF"}

\* Inputs of a direct call of lng_cargo_economics: one set per field.
CargoDom ==
    [ deal_type                     |-> DealTypes,
      cargo_mmbtu                   |-> {Num(n) : n \in 0..MaxCargo},
      sales_price_des               |-> {Num(12), R(3001, 250)},
      purchase_price_fob            |-> {R(19, 2), Num(10)},
      boiloff_rate_voyage           |-> {R(1, 1000), R(1, 2)},
      fuel_use_fraction_of_cargo    |-> {R(1, 50), Num(2)},
      freight_deduct_usd_per_mmbtu  |-> {R(1, 5)},
      regas_fee_usd_per_mmbtu       |-> {R(3, 10)},
      pipeline_tariff_usd_per_mmbtu |-> {R(1, 5)},
      hedge_price_usd_per_mmbtu     |-> {Num(11)},
      hedge_volume_mmbtu            |-> {Num(0), Num(1)} ]

ShippingDom ==
    [ distance_nm            |-> {Num(-360), Num(0), Num(1000)},
      speed_knots            |-> {Num(-1), Num(0), Num(15)},
      daily_charter_rate_usd |-> {Num(80)},
      boiloff_rate_sea_daily |-> {R(1, 1000)} ]

CargoFields == DOMAIN CargoDom
ShippingFields == DOMAIN ShippingDom

CargoParams ==
    [ deal_type                     : CargoDom.deal_type,
      cargo_mmbtu                   : CargoDom.cargo_mmbtu,
      sales_price_des               : CargoDom.sales_price_des,
      purchase_price_fob            : CargoDom.purchase_price_fob,
      boiloff_rate_voyage           : CargoDom.boiloff_rate_voyage,
      fuel_use_fraction_of_cargo    : CargoDom.fuel_use_fraction_of_cargo,
      freight_deduct_usd_per_mmbtu  : CargoDom.freight_deduct_usd_per_mmbtu,
      regas_fee_usd_per_mmbtu       : CargoDom.regas_fee_usd_per_mmbtu,
      pipeline_tariff_usd_per_mmbtu : CargoDom.pipeline_tariff_usd_per_mmbtu,
      hedge_price_usd_per_mmbtu     : CargoDom.hedge_price_usd_per_mmbtu,
      hedge_volume_mmbtu            : CargoDom.hedge_volume_mmbtu ]

ShippingParams ==
    [ distance_nm            : ShippingDom.distance_nm,
      speed_knots            : ShippingDom.speed_knots,
      daily_charter_rate_usd : ShippingDom.daily_charter_rate_usd,
      boiloff_rate_sea_daily : ShippingDom.boiloff_rate_sea_daily ]

\* Before main() has built the two records.
NoCargo ==
    [ deal_type |-> "", cargo_mmbtu |-> None, sales_price_des |-> None,
      purchase_price_fob |-> None, boiloff_rate_voyage |-> None,
      fuel_use_fraction_of_cargo |-> None, freight_deduct_usd_per_mmbtu |-> None,
      regas_fee_usd_per_mmbtu |-> None, pipeline_tariff_usd_per_mmbtu |-> None,
      hedge_price_usd_per_mmbtu |-> None, hedge_volume_mmbtu |-> None ]

NoShipping ==
    [ distance_nm |-> None, speed_knots |-> None,
      daily_charter_rate_usd |-> None, boiloff_rate_sea_daily |-> None ]

\* The local variables of lng_cargo_economics, all unassigned.
NoLocals ==
    [ shipping_days |-> None, freight_cost_total |-> None,
      voyage_boiloff_mmbtu |-> None, fuel_use_mmbtu |-> None,
      total_losses_mmbtu |-> None, net_delivered_mmbtu |-> None,
      regas_cost_total |-> None, pipeline_cost_total |-> None,
      gross_margin |-> None, downstream_costs |-> None, net_margin |-> None,
      physical_price_for_hedge |-> None, hedge_pnl |-> None, total_pnl |-> None ]

\* The keys of the returned dict after "inputs", in insertion order.
ReportKeys ==
    << "shipping_days", "voyage_boiloff_mmbtu", "fuel_use_mmbtu",
       "total_losses_mmbtu", "net_delivered_mmbtu", "freight_cost_total_usd",
       "regas_cost_total_usd", "pipeline_cost_total_usd", "gross_margin_usd",
       "downstream_costs_usd", "net_margin_usd", "hedge_pnl_usd", "total_pnl_usd" >>

ResultKeys == <<"inputs">> \o ReportKeys

ReportFields == {ReportKeys[i] : i \in 1..Len(ReportKeys)}

\* No dict returned (yet).
NoReport == [k \in ReportFields |-> None]

\* The dict built by the return statement (the "inputs" entry is the pair
\* cargo, shipping, which the state already holds).
MakeReport(l) ==
    [ shipping_days           |-> Round(l.shipping_days, 3),
      voyage_boiloff_mmbtu    |-> Round(l.voyage_boiloff_mmbtu, 2),
      fuel_use_mmbtu          |-> Round(l.fuel_use_mmbtu, 2),
      total_losses_mmbtu      |-> Round(l.total_losses_mmbtu, 2),
      net_delivered_mmbtu     |-> Round(l.net_delivered_mmbtu, 2),
      freight_cost_total_usd  |-> Round(l.freight_cost_total, 2),
      regas_cost_total_usd    |-> Round(l.regas_cost_total, 2),
      pipeline_cost_total_usd |-> Round(l.pipeline_cost_total, 2),
      gross_margin_usd        |-> Round(l.gross_margin, 2),
      downstream_costs_usd    |-> Round(l.downstream_costs, 2),
      net_margin_usd          |-> Round(l.net_margin, 2),
      hedge_pnl_usd           |-> Round(l.hedge_pnl, 2),
      total_pnl_usd           |-> Round(l.total_pnl, 2) ]

\* ------------------------------------------------------------------------
\* State
\* ------------------------------------------------------------------------
VARIABLES
    mode,      \* "call": lng_cargo_economics called directly; "cli": main()
    argv,      \* cli: the command-line flags
    cargo,     \* the CargoParams record
    shipping,  \* the ShippingParams record
    pc,        \* the statement about to run
    loc,       \* the locals of lng_cargo_economics
    error,     \* the exception raised, "" if none
    result,    \* the returned dict
    idx,       \* cli: position of the print loop in result.items()
    stdout,    \* cli: the lines printed
    exit_code, \* cli: the process exit status, -1 while running
    prev       \* call: inputs and outcome of the previous call

vars == <<mode, argv, cargo, shipping, pc, loc, error, result, idx, stdout,
          exit_code, prev>>

cliVars == <<argv, idx, stdout, exit_code>>

\* ------------------------------------------------------------------------
\* Command line
\* ------------------------------------------------------------------------
\* The text given for a float flag: <<n, d>> with d > 0 is the decimal text
\* of n/d, Absent a flag that is not given, BadFloat a text float() rejects.
Absent == None
BadFloat == <<1, 0>>

\* The empty text stands for --deal_type not given.
ArgvSet ==
    [ deal_type                     : {""} \cup DealTypes,
      cargo_mmbtu                   : {Absent, Num(0), Num(3000000)},
      sales_price_des               : {Absent, Num(12)},
      purchase_price_fob            : {Absent, R(19, 2)},
      boiloff_rate_voyage           : {Absent},
      fuel_use_fraction_of_cargo    : {Absent},
      freight_deduct_usd_per_mmbtu  : {Absent},
      regas_fee_usd_per_mmbtu       : {Absent},
      pipeline_tariff_usd_per_mmbtu : {Absent},
      hedge_price_usd_per_mmbtu     : {Absent},
      hedge_volume_mmbtu            : {Absent, Num(2000000)},
      distance_nm                   : {Absent, Num(0), Num(9000)},
      speed_knots                   : {Absent, BadFloat, Num(-1), Num(0), Num(15)},
      daily_charter_rate_usd        : {Absent},
      boiloff_rate_sea_daily        : {Absent} ]

NoArgv == [f \in CargoFields \cup ShippingFields |-> IF f = "deal_type" THEN "" ELSE Absent]

FloatFlags == (CargoFields \cup ShippingFields) \ {"deal_type"}

\* required=True in build_arg_parser
RequiredFlags == {"deal_type", "cargo_mmbtu", "distance_nm"}

\* default= in build_arg_parser (None for the required flags)
Defaults ==
    [ cargo_mmbtu                   |-> None,
      sales_price_des               |-> Num(12),
      purchase_price_fob            |-> Num(10),
      boiloff_rate_voyage           |-> R(1, 1000),
      fuel_use_fraction_of_cargo    |-> R(1, 50),
      freight_deduct_usd_per_mmbtu  |-> R(1, 5),
      regas_fee_usd_per_mmbtu       |-> R(3, 10),
      pipeline_tariff_usd_per_mmbtu |-> R(1, 5),
      hedge_price_usd_per_mmbtu     |-> Num(11),
      hedge_volume_mmbtu            |-> Num(0),
      distance_nm                   |-> None,
      speed_knots                   |-> Num(15),
      daily_charter_rate_usd        |-> Num(80000),
      boiloff_rate_sea_daily        |-> R(1, 1000) ]

\* parser.parse_args() accepts the command line.
ArgvAccepted(a) ==
    /\ a.deal_type \in {"FOB", "DES"}
    /\ \A f \in FloatFlags : a[f] # BadFloat
    /\ \A f \in RequiredFlags \ {"deal_type"} : a[f] # Absent

\* args.<f> of the parsed namespace.
ArgValue(a, f) == IF a[f] = Absent THEN Defaults[f] ELSE a[f]

\* ------------------------------------------------------------------------
\* Initial states
\* ------------------------------------------------------------------------
NoPrev == [cargo |-> NoCargo, shipping |-> NoShipping, error |-> "", result |-> NoReport]

InitCall ==
    /\ mode = "call"
    /\ argv = NoArgv
    /\ cargo \in CargoParams
    /\ shipping \in ShippingParams
    /\ pc = "days"

InitCli ==
    /\ mode = "cli"
    /\ argv \in ArgvSet
    /\ cargo = NoCargo
    /\ shipping = NoShipping
    /\ pc = "parse"

Init ==
    /\ InitCall \/ InitCli
    /\ loc = NoLocals
    /\ error = ""
    /\ result = NoReport
    /\ idx = 0
    /\ stdout = <<>>
    /\ exit_code = -1
    /\ prev = NoPrev

\* ------------------------------------------------------------------------
\* lng_cargo_economics, statement by statement
\* ------------------------------------------------------------------------
\* Fault variant: a non-positive distance is rejected as well.
CalcShippingDaysRaise_mut ==
    /\ pc = "days"
    /\ SpeedInvalid(shipping.speed_knots) \/ RLeqZero(shipping.distance_nm)
    /\ error' = "Speed must be positive."
    /\ pc' = "raised"
    /\ UNCHANGED <<mode, cargo, shipping, loc, result, prev, cliVars>>

\* shipping_days = calc_shipping_days(...): raises for speed <= 0
CalcShippingDaysRaise ==
    /\ pc = "days"
    /\ SpeedInvalid(shipping.speed_knots)
    /\ error' = "Speed must be positive."
    /\ pc' = "raised"
    /\ UNCHANGED <<mode, cargo, shipping, loc, result, prev, cliVars>>

CalcShippingDays ==
    /\ pc = "days"
    /\ ~SpeedInvalid(shipping.speed_knots)
    /\ loc' = [loc EXCEPT !.shipping_days =
                   calc_shipping_days(shipping.distance_nm, shipping.speed_knots)]
    /\ pc' = "freight"
    /\ UNCHANGED <<mode, cargo, shipping, error, result, prev, cliVars>>

\* Fault variant: freight is computed from the rounded shipping days.
CalcFreightCost_mut ==
    /\ pc = "freight"
    /\ loc' = [loc EXCEPT !.freight_cost_total =
                   calc_freight_cost(shipping.daily_charter_rate_usd,
                                     Round(loc.shipping_days, 3))]
    /\ pc' = "boiloff"
    /\ UNCHANGED <<mode, cargo, shipping, error, result, prev, cliVars>>

CalcFreightCost ==
    /\ pc = "freight"
    /\ loc' = [loc EXCEPT !.freight_cost_total =
                   calc_freight_cost(shipping.daily_charter_rate_usd, loc.shipping_days)]
    /\ pc' = "boiloff"
    /\ UNCHANGED <<mode, cargo, shipping, error, result, prev, cliVars>>

\* Fault variant: boiloff_rate_voyage is added to the daily sea rate.
CalcVoyageBoiloff_mut ==
    /\ pc = "boiloff"
    /\ loc' = [loc EXCEPT !.voyage_boiloff_mmbtu =
                   calc_voyage_boiloff(cargo.cargo_mmbtu, loc.shipping_days,
                                       RAdd(shipping.boiloff_rate_sea_daily,
                                            cargo.boiloff_rate_voyage))]
    /\ pc' = "fuel"
    /\ UNCHANGED <<mode, cargo, shipping, error, result, prev, cliVars>>

CalcVoyageBoiloff ==
    /\ pc = "boiloff"
    /\ loc' = [loc EXCEPT !.voyage_boiloff_mmbtu =
                   calc_voyage_boiloff(cargo.cargo_mmbtu, loc.shipping_days,
                                       shipping.boiloff_rate_sea_daily)]
    /\ pc' = "fuel"
    /\ UNCHANGED <<mode, cargo, shipping, error, result, prev, cliVars>>

CalcFuelUse ==
    /\ pc = "fuel"
    /\ loc' = [loc EXCEPT !.fuel_use_mmbtu =
                   calc_fuel_use(cargo.cargo_mmbtu, cargo.fuel_use_fraction_of_cargo)]
    /\ pc' = "net"
    /\ UNCHANGED <<mode, cargo, shipping, error, result, prev, cliVars>>

\* total_losses_mmbtu and net_delivered_mmbtu
NetDelivered ==
    /\ pc = "net"
    /\ LET total_losses_mmbtu == RAdd(loc.voyage_boiloff_mmbtu, loc.fuel_use_mmbtu)
       IN  loc' = [loc EXCEPT
                     !.total_losses_mmbtu = total_losses_mmbtu,
                     !.net_delivered_mmbtu =
                         net_delivered_of(cargo.cargo_mmbtu, total_losses_mmbtu)]
    /\ pc' = "downstream"
    /\ UNCHANGED <<mode, cargo, shipping, error, result, prev, cliVars>>

\* regas_cost_total and pipeline_cost_total
RegasPipeline ==
    /\ pc = "downstream"
    /\ loc' = [loc EXCEPT
                 !.regas_cost_total =
                     RMul(loc.net_delivered_mmbtu, cargo.regas_fee_usd_per_mmbtu),
                 !.pipeline_cost_total =
                     RMul(loc.net_delivered_mmbtu, cargo.pipeline_tariff_usd_per_mmbtu)]
    /\ pc' = "branch"
    /\ UNCHANGED <<mode, cargo, shipping, error, result, prev, cliVars>>

\* if cargo.deal_type == "DES":
BranchDES ==
    /\ pc = "branch"
    /\ cargo.deal_type = "DES"
    /\ LET fob_cost_total    == RMul(cargo.cargo_mmbtu, cargo.purchase_price_fob)
           des_revenue_total == RMul(loc.net_delivered_mmbtu, cargo.sales_price_des)
           gross_margin      == RSub(RSub(des_revenue_total, fob_cost_total),
                                     loc.freight_cost_total)
           downstream_costs  == RAdd(loc.regas_cost_total, loc.pipeline_cost_total)
       IN  loc' = [loc EXCEPT
                     !.gross_margin = gross_margin,
                     !.downstream_costs = downstream_costs,
                     !.net_margin = RSub(gross_margin, downstream_costs),
                     !.physical_price_for_hedge = cargo.sales_price_des]
    /\ pc' = "hedge"
    /\ UNCHANGED <<mode, cargo, shipping, error, result, prev, cliVars>>

\* Fault variant: the FOB branch hedges against the DES sales price.
BranchFOB_mut ==
    /\ pc = "branch"
    /\ cargo.deal_type # "DES"
    /\ cargo.deal_type = "FOB"
    /\ LET fob_revenue_total    == RMul(cargo.cargo_mmbtu, cargo.purchase_price_fob)
           freight_deduct_total == RMul(cargo.cargo_mmbtu,
                                        cargo.freight_deduct_usd_per_mmbtu)
           netback_total        == RSub(fob_revenue_total, freight_deduct_total)
           gross_margin         == RSub(netback_total, loc.freight_cost_total)
           downstream_costs     == RAdd(loc.regas_cost_total, loc.pipeline_cost_total)
       IN  loc' = [loc EXCEPT
                     !.gross_margin = gross_margin,
                     !.downstream_costs = downstream_costs,
                     !.net_margin = RSub(gross_margin, downstream_costs),
                     !.physical_price_for_hedge = cargo.sales_price_des]
    /\ pc' = "hedge"
    /\ UNCHANGED <<mode, cargo, shipping, error, result, prev, cliVars>>

\* elif cargo.deal_type == "FOB":
BranchFOB ==
    /\ pc = "branch"
    /\ cargo.deal_type # "DES"
    /\ cargo.deal_type = "FOB"
    /\ LET fob_revenue_total    == RMul(cargo.cargo_mmbtu, cargo.purchase_price_fob)
           freight_deduct_total == RMul(cargo.cargo_mmbtu,
                                        cargo.freight_deduct_usd_per_mmbtu)
           netback_total        == RSub(fob_revenue_total, freight_deduct_total)
           gross_margin         == RSub(netback_total, loc.freight_cost_total)
           downstream_costs     == RAdd(loc.regas_cost_total, loc.pipeline_cost_total)
       IN  loc' = [loc EXCEPT
                     !.gross_margin = gross_margin,
                     !.downstream_costs = downstream_costs,
                     !.net_margin = RSub(gross_margin, downstream_costs),
                     !.physical_price_for_hedge =
                         RSub(cargo.purchase_price_fob,
                              cargo.freight_deduct_usd_per_mmbtu)]
    /\ pc' = "hedge"
    /\ UNCHANGED <<mode, cargo, shipping, error, result, prev, cliVars>>

\* Fault variant: no else branch, the function goes on to the hedge step.
BranchInvalid_mut ==
    /\ pc = "branch"
    /\ cargo.deal_type # "DES"
    /\ cargo.deal_type # "FOB"
    /\ pc' = "hedge"
    /\ UNCHANGED <<mode, cargo, shipping, loc, error, result, prev, cliVars>>

\* else: raise ValueError
BranchInvalid ==
    /\ pc = "branch"
    /\ cargo.deal_type # "DES"
    /\ cargo.deal_type # "FOB"
    /\ error' = "deal_type must be 'FOB' or 'DES'."
    /\ pc' = "raised"
    /\ UNCHANGED <<mode, cargo, shipping, loc, result, prev, cliVars>>

\* Fault variant: total_pnl leaves the hedge out.
HedgePnl_mut ==
    /\ pc = "hedge"
    /\ LET hedge_pnl == calc_hedge_pnl(cargo.hedge_price_usd_per_mmbtu,
                                       loc.physical_price_for_hedge,
                                       cargo.hedge_volume_mmbtu)
       IN  loc' = [loc EXCEPT
                     !.hedge_pnl = hedge_pnl,
                     !.total_pnl = loc.net_margin]
    /\ pc' = "return"
    /\ UNCHANGED <<mode, cargo, shipping, error, result, prev, cliVars>>

\* hedge_pnl and total_pnl
HedgePnl ==
    /\ pc = "hedge"
    /\ LET hedge_pnl == calc_hedge_pnl(cargo.hedge_price_usd_per_mmbtu,
                                       loc.physical_price_for_hedge,
                                       cargo.hedge_volume_mmbtu)
       IN  loc' = [loc EXCEPT
                     !.hedge_pnl = hedge_pnl,
                     !.total_pnl = RAdd(loc.net_margin, hedge_pnl)]
    /\ pc' = "return"
    /\ UNCHANGED <<mode, cargo, shipping, error, result, prev, cliVars>>

\* return {...}
Return ==
    /\ pc = "return"
    /\ result' = MakeReport(loc)
    /\ pc' = "done"
    /\ UNCHANGED <<mode, cargo, shipping, loc, error, prev, cliVars>>

\* One statement of lng_cargo_economics.
Step ==
    \/ CalcShippingDaysRaise
    \/ CalcShippingDays
    \/ CalcFreightCost
    \/ CalcVoyageBoiloff
    \/ CalcFuelUse
    \/ NetDelivered
    \/ RegasPipeline
    \/ BranchDES
    \/ BranchFOB
    \/ BranchInvalid
    \/ HedgePnl
    \/ Return

\* A further direct call, whose inputs differ from the last call's in one field.
NextCall ==
    /\ mode = "call"
    /\ pc \in {"done", "raised"}
    /\ prev' = [cargo |-> cargo, shipping |-> shipping, error |-> error,
                result |-> result]
    /\ \/ \E f \in CargoFields : \E v \in CargoDom[f] \ {cargo[f]} :
             /\ cargo' = [cargo EXCEPT ![f] = v]
             /\ shipping' = shipping
       \/ \E f \in ShippingFields : \E v \in ShippingDom[f] \ {shipping[f]} :
             /\ shipping' = [shipping EXCEPT ![f] = v]
             /\ cargo' = cargo
    /\ loc' = NoLocals
    /\ error' = ""
    /\ result' = NoReport
    /\ pc' = "days"
    /\ UNCHANGED <<mode, cliVars>>

\* ------------------------------------------------------------------------
\* main()
\* ------------------------------------------------------------------------
\* parser.parse_args() rejects the command line: usage on stderr, exit status 2
ParseArgsError ==
    /\ pc = "parse"
    /\ ~ArgvAccepted(argv)
    /\ exit_code' = 2
    /\ pc' = "exit"
    /\ UNCHANGED <<mode, argv, cargo, shipping, loc, error, result, idx, stdout, prev>>

\* parse_args(), CargoParams(...), ShippingParams(...)
ParseArgs ==
    /\ pc = "parse"
    /\ ArgvAccepted(argv)
    /\ cargo' = [f \in CargoFields |->
                    IF f = "deal_type" THEN argv.deal_type ELSE ArgValue(argv, f)]
    /\ shipping' = [f \in ShippingFields |-> ArgValue(argv, f)]
    /\ pc' = "days"
    /\ UNCHANGED <<mode, argv, loc, error, result, idx, stdout, exit_code, prev>>

\* Fault variant: main() swallows the ValueError and returns normally.
Uncaught_mut ==
    /\ mode = "cli"
    /\ pc = "raised"
    /\ exit_code' = 0
    /\ pc' = "exit"
    /\ UNCHANGED <<mode, argv, cargo, shipping, loc, error, result, idx, stdout, prev>>

\* The ValueError leaves main() uncaught: traceback on stderr, exit status 1
Uncaught ==
    /\ mode = "cli"
    /\ pc = "raised"
    /\ exit_code' = 1
    /\ pc' = "exit"
    /\ UNCHANGED <<mode, argv, cargo, shipping, loc, error, result, idx, stdout, prev>>

Header == [k |-> "=== LNG Cargo Economics & P&L ===", v |-> None]

PrintHeader ==
    /\ mode = "cli"
    /\ pc = "done"
    /\ stdout' = Append(stdout, Header)
    /\ idx' = 1
    /\ pc' = "print"
    /\ UNCHANGED <<mode, argv, cargo, shipping, loc, error, result, exit_code, prev>>

\* isinstance(v, dict): only the "inputs" entry is a dict
IsDict(k) == k = "inputs"

\* One iteration of: for k, v in result.items()
PrintItem ==
    /\ pc = "print"
    /\ idx <= Len(ResultKeys)
    /\ LET k == ResultKeys[idx]
       IN  stdout' = IF IsDict(k) THEN stdout
                     ELSE Append(stdout, [k |-> k, v |-> result[k]])
    /\ idx' = idx + 1
    /\ UNCHANGED <<mode, argv, cargo, shipping, pc, loc, error, result, exit_code, prev>>

\* main() returns
Exit ==
    /\ pc = "print"
    /\ idx > Len(ResultKeys)
    /\ exit_code' = 0
    /\ pc' = "exit"
    /\ UNCHANGED <<mode, argv, cargo, shipping, loc, error, result, idx, stdout, prev>>

Main ==
    \/ ParseArgsError
    \/ ParseArgs
    \/ Uncaught
    \/ PrintHeader
    \/ PrintItem
    \/ Exit

Next == Step \/ NextCall \/ Main

Spec == Init /\ [][Next]_vars

\* ------------------------------------------------------------------------
\* Properties
\* ------------------------------------------------------------------------
SpeedError == "Speed must be positive."
DealTypeError == "deal_type must be 'FOB' or 'DES'."

\* lng_cargo_economics has returned its dict / has raised.
Returned == result # NoReport
Raised == error # ""

\* The previous call ran on the same inputs except for cargo field f.
PrevDiffersOnlyIn(f) ==
    /\ prev.cargo # NoCargo
    /\ prev.shipping = shipping
    /\ prev.cargo[f] # cargo[f]
    /\ prev.cargo = [cargo EXCEPT ![f] = prev.cargo[f]]

\* C1 as stated: the report's total_pnl field equals exactly the report's
\* net_margin field plus the report's hedge_pnl field.
C1_ReportedTotalIsSumOfReported ==
    Returned =>
        result.total_pnl_usd = RAdd(result.net_margin_usd, result.hedge_pnl_usd)

\* C1 amended: total_pnl equals net_margin + hedge_pnl exactly before
\* rounding, and the report's total_pnl field is that sum rounded to 2 places.
C1_TotalIsRoundedSum ==
    /\ IsSet(loc.total_pnl) => loc.total_pnl = RAdd(loc.net_margin, loc.hedge_pnl)
    /\ Returned =>
          result.total_pnl_usd = Round(RAdd(loc.net_margin, loc.hedge_pnl), 2)

\* A returned report whose three P&L fields all carry a rounding.
C1_Witness ==
    /\ Returned
    /\ result.net_margin_usd # loc.net_margin
    /\ result.hedge_pnl_usd # loc.hedge_pnl
    /\ result.total_pnl_usd # loc.total_pnl

\* C2: net_delivered is never negative: it is exactly 0 when voyage boil-off
\* plus fuel use exceeds the cargo quantity, and the cargo quantity minus
\* (voyage boil-off + fuel use) otherwise; the reported field is its rounding.
C2_NetDeliveredClamped ==
    /\ IsSet(loc.net_delivered_mmbtu) =>
          LET d == RSub(cargo.cargo_mmbtu,
                        RAdd(loc.voyage_boiloff_mmbtu, loc.fuel_use_mmbtu))
          IN  /\ loc.net_delivered_mmbtu = IF d[1] < 0 THEN Num(0) ELSE d
              /\ loc.net_delivered_mmbtu[1] >= 0
    /\ Returned =>
          /\ result.net_delivered_mmbtu[1] >= 0
          /\ result.net_delivered_mmbtu = Round(loc.net_delivered_mmbtu, 2)

\* A report for a cargo whose losses exceed it.
C2_Witness ==
    /\ Returned
    /\ cargo.cargo_mmbtu[1] > 0
    /\ RSub(cargo.cargo_mmbtu, loc.total_losses_mmbtu)[1] < 0
    /\ result.net_delivered_mmbtu = Num(0)

\* The DES scenario of the run example.
ScenarioCargo ==
    [ deal_type                     |-> "DES",
      cargo_mmbtu                   |-> Num(3000000),
      sales_price_des               |-> Num(12),
      purchase_price_fob            |-> R(19, 2),
      boiloff_rate_voyage           |-> R(1, 1000),
      fuel_use_fraction_of_cargo    |-> R(1, 50),
      freight_deduct_usd_per_mmbtu  |-> R(1, 5),
      regas_fee_usd_per_mmbtu       |-> R(3, 10),
      pipeline_tariff_usd_per_mmbtu |-> R(1, 5),
      hedge_price_usd_per_mmbtu     |-> Num(11),
      hedge_volume_mmbtu            |-> Num(2000000) ]

ScenarioShipping ==
    [ distance_nm            |-> Num(9000),
      speed_knots            |-> Num(15),
      daily_charter_rate_usd |-> Num(80000),
      boiloff_rate_sea_daily |-> R(1, 1000) ]

InScenario == cargo = ScenarioCargo /\ shipping = ScenarioShipping

\* C3 as stated: on the DES scenario the report is shipping_days 25,
\* fuel_use 60,000, voyage_boiloff 75,000, net_delivered 2,865,000,
\* freight_cost 2,000,000, regas_cost 859,500, pipeline_cost 573,000,
\* gross_margin 2,380,000, net_margin 947,500, hedge_pnl 2,000,000,
\* total_pnl 2,947,500.
C3_DESScenarioAsStated ==
    (InScenario /\ Returned) =>
        /\ result.shipping_days = Num(25)
        /\ result.fuel_use_mmbtu = Num(60000)
        /\ result.voyage_boiloff_mmbtu = Num(75000)
        /\ result.net_delivered_mmbtu = Num(2865000)
        /\ result.freight_cost_total_usd = Num(2000000)
        /\ result.regas_cost_total_usd = Num(859500)
        /\ result.pipeline_cost_total_usd = Num(573000)
        /\ result.gross_margin_usd = Num(2380000)
        /\ result.net_margin_usd = Num(947500)
        /\ result.hedge_pnl_usd = Num(2000000)
        /\ result.total_pnl_usd = Num(2947500)

\* C3 amended: on the DES scenario the report is shipping_days 25,
\* fuel_use 60,000, voyage_boiloff 75,000, net_delivered 2,865,000,
\* freight_cost 2,000,000, regas_cost 859,500, pipeline_cost 573,000,
\* gross_margin 3,880,000, net_margin 2,447,500, hedge_pnl 2,000,000,
\* total_pnl 4,447,500.
C3_DESScenario ==
    (InScenario /\ Returned) =>
        /\ result.shipping_days = Num(25)
        /\ result.fuel_use_mmbtu = Num(60000)
        /\ result.voyage_boiloff_mmbtu = Num(75000)
        /\ result.net_delivered_mmbtu = Num(2865000)
        /\ result.freight_cost_total_usd = Num(2000000)
        /\ result.regas_cost_total_usd = Num(859500)
        /\ result.pipeline_cost_total_usd = Num(573000)
        /\ result.gross_margin_usd = Num(3880000)
        /\ result.net_margin_usd = Num(2447500)
        /\ result.hedge_pnl_usd = Num(2000000)
        /\ result.total_pnl_usd = Num(4447500)

C3_Witness == InScenario /\ Returned

\* C4: whenever speed is 0 or negative the call raises the invalid-speed
\* error and returns no report, whatever the deal type and the other inputs.
C4_InvalidSpeedRaises ==
    (IsSet(shipping.speed_knots) /\ RLeqZero(shipping.speed_knots)) =>
        /\ ~Returned
        /\ loc = NoLocals
        /\ pc \in {"days", "raised", "exit"}
        /\ pc # "days" => error = SpeedError

\* The speed error raised on a deal type that is neither FOB nor DES.
C4_Witness ==
    /\ error = SpeedError
    /\ cargo.deal_type = "CIF"
    /\ shipping.speed_knots = Num(0)

DealTypeInvalid == cargo # NoCargo /\ cargo.deal_type \notin {"FOB", "DES"}

\* The locals assigned by the arithmetic steps that precede the deal-type branch.
ArithLocals ==
    {"shipping_days", "freight_cost_total", "voyage_boiloff_mmbtu", "fuel_use_mmbtu",
     "total_losses_mmbtu", "net_delivered_mmbtu", "regas_cost_total",
     "pipeline_cost_total"}

\* C5 as stated: with a deal type outside {FOB, DES} the deal-type error is
\* raised before any arithmetic step is performed, and it is the outcome of
\* the call whatever the other inputs are.
C5_DealTypeErrorBeforeArithmetic ==
    DealTypeInvalid =>
        /\ \A f \in ArithLocals : ~IsSet(loc[f])
        /\ Raised => error = DealTypeError

\* C5 amended: with a deal type outside {FOB, DES} no report is returned; for
\* speed > 0 the call raises the deal-type error at the deal-type branch,
\* after shipping days, freight cost, boil-off, fuel use, net delivered, regas
\* and pipeline cost have been computed; for speed <= 0 it raises the speed
\* error instead.
C5_DealTypeErrorAtBranch ==
    DealTypeInvalid =>
        /\ ~Returned
        /\ pc \notin {"hedge", "return", "done", "print"}
        /\ \A f \in (DOMAIN NoLocals) \ ArithLocals : ~IsSet(loc[f])
        /\ Raised =>
              IF SpeedInvalid(shipping.speed_knots)
              THEN error = SpeedError /\ loc = NoLocals
              ELSE error = DealTypeError /\ \A f \in ArithLocals : IsSet(loc[f])

C5_Witness ==
    /\ error = DealTypeError
    /\ \A f \in ArithLocals : IsSet(loc[f])

RunningPcs ==
    {"days", "freight", "boiloff", "fuel", "net", "downstream", "branch", "hedge",
     "return"}

\* The statements after calc_shipping_days has returned.
AfterDays == (RunningPcs \ {"days"}) \cup {"done", "print"}

\* C6: the call fails only for speed <= 0 or a deal type outside {FOB, DES}:
\* the one division never has a zero divisor, and for speed > 0 and deal type
\* FOB or DES (zero or negative distance, zero cargo, hedge volume above the
\* delivered volume included) the call returns a report with every field set.
C6_OnlyTwoFailures ==
    /\ pc \in AfterDays =>
          /\ RMul(shipping.speed_knots, Num(24))[1] # 0
          /\ loc.shipping_days[2] > 0
    /\ Raised => error \in {SpeedError, DealTypeError}
    /\ (Raised \/ Returned) =>
          /\ Raised <=> (SpeedInvalid(shipping.speed_knots) \/ DealTypeInvalid)
          /\ Returned <=> ~Raised
    /\ (mode = "call" /\ pc \in {"done", "raised"}) => (Raised \/ Returned)
    /\ Returned => \A k \in ReportFields : result[k][2] > 0

\* A report for zero cargo, negative distance and a hedge volume above the
\* delivered volume.
C6_Witness ==
    /\ Returned
    /\ cargo.cargo_mmbtu = Num(0)
    /\ shipping.distance_nm[1] < 0
    /\ RSub(cargo.hedge_volume_mmbtu, loc.net_delivered_mmbtu)[1] > 0

\* C7: for a FOB deal gross margin = cargo x purchase_price - cargo x
\* freight_deduct_rate - charter x shipping_days, net margin = gross margin -
\* (regas cost + pipeline cost), hedge P&L = ((purchase_price -
\* freight_deduct_rate) - hedge_price) x hedge_volume, and the DES sales
\* price has no effect on the report.
C7_FOBFormulas ==
    /\ (Returned /\ cargo.deal_type = "FOB") =>
          LET gm == RSub(RSub(RMul(cargo.cargo_mmbtu, cargo.purchase_price_fob),
                              RMul(cargo.cargo_mmbtu,
                                   cargo.freight_deduct_usd_per_mmbtu)),
                         RMul(shipping.daily_charter_rate_usd, loc.shipping_days))
              nm == RSub(gm, RAdd(loc.regas_cost_total, loc.pipeline_cost_total))
              hp == RMul(RSub(RSub(cargo.purchase_price_fob,
                                   cargo.freight_deduct_usd_per_mmbtu),
                              cargo.hedge_price_usd_per_mmbtu),
                         cargo.hedge_volume_mmbtu)
          IN  /\ loc.gross_margin = gm
              /\ loc.net_margin = nm
              /\ loc.hedge_pnl = hp
              /\ result.gross_margin_usd = Round(gm, 2)
              /\ result.net_margin_usd = Round(nm, 2)
              /\ result.hedge_pnl_usd = Round(hp, 2)
    /\ (Returned /\ cargo.deal_type = "FOB" /\ PrevDiffersOnlyIn("sales_price_des")) =>
          prev.result = result /\ prev.error = error

\* Two FOB reports with a hedge, for inputs that differ in the sales price only.
C7_Witness ==
    /\ Returned
    /\ cargo.deal_type = "FOB"
    /\ PrevDiffersOnlyIn("sales_price_des")
    /\ cargo.hedge_volume_mmbtu[1] > 0
    /\ cargo.cargo_mmbtu[1] > 0

\* C8: two calls whose inputs differ only in boiloff_rate_voyage have the
\* same outcome: the same error, or reports equal in every field.
C8_VoyageRateUnused ==
    (PrevDiffersOnlyIn("boiloff_rate_voyage") /\ (Returned \/ Raised)) =>
        prev.result = result /\ prev.error = error

\* Two reports with a non-zero boil-off, for inputs that differ in
\* boiloff_rate_voyage only.
C8_Witness ==
    /\ Returned
    /\ PrevDiffersOnlyIn("boiloff_rate_voyage")
    /\ loc.voyage_boiloff_mmbtu[1] > 0

\* The local behind each key of the report.
LocalOf ==
    [ shipping_days           |-> "shipping_days",
      voyage_boiloff_mmbtu    |-> "voyage_boiloff_mmbtu",
      fuel_use_mmbtu          |-> "fuel_use_mmbtu",
      total_losses_mmbtu      |-> "total_losses_mmbtu",
      net_delivered_mmbtu     |-> "net_delivered_mmbtu",
      freight_cost_total_usd  |-> "freight_cost_total",
      regas_cost_total_usd    |-> "regas_cost_total",
      pipeline_cost_total_usd |-> "pipeline_cost_total",
      gross_margin_usd        |-> "gross_margin",
      downstream_costs_usd    |-> "downstream_costs",
      net_margin_usd          |-> "net_margin",
      hedge_pnl_usd           |-> "hedge_pnl",
      total_pnl_usd           |-> "total_pnl" ]

ReportLines == [i \in 1..Len(ReportKeys) |-> [k |-> ReportKeys[i], v |-> result[ReportKeys[i]]]]

\* C10: the CLI run exits non-zero, with no line printed, on a zero or
\* negative speed and on an unrecognized deal type; on valid input it prints
\* each scalar field of the report on its own line and skips "inputs".
C10_CliExit ==
    mode = "cli" =>
        /\ (Raised \/ exit_code > 0) => stdout = <<>>
        /\ pc = "exit" =>
              IF /\ ArgvAccepted(argv)
                 /\ ~RLeqZero(ArgValue(argv, "speed_knots"))
              THEN /\ exit_code = 0
                   /\ stdout = <<Header>> \o ReportLines
                   /\ \A i \in 1..Len(stdout) : stdout[i].k # "inputs"
              ELSE /\ exit_code > 0
                   /\ stdout = <<>>

\* The CLI run ended by the speed error.
C10_Witness ==
    /\ mode = "cli"
    /\ pc = "exit"
    /\ error = SpeedError
    /\ exit_code = 1

\* The CLI run rejected for its deal type.
C10_WitnessDealType ==
    /\ mode = "cli"
    /\ pc = "exit"
    /\ argv.deal_type = "CIF"
    /\ argv.cargo_mmbtu # Absent /\ argv.distance_nm # Absent
    /\ argv.speed_knots = Absent
    /\ exit_code = 2

\* The CLI run that printed the report.
C10_WitnessPrinted ==
    /\ mode = "cli"
    /\ pc = "exit"
    /\ exit_code = 0
    /\ Len(stdout) = 1 + Len(ReportKeys)

====
